---- MODULE Spec2Model ----
(***************************************************************************)
(* Model of source_elasticsearch/source.py (class SourceElasticsearch):    *)
(* check, discover, read and the scroll generator _scroll_through_index,   *)
(* together with the part of the remote engine they talk to (list indices, *)
(* get mapping, search with scroll, scroll continue).                      *)
(***************************************************************************)
EXTENDS Integers, Sequences, FiniteSets, TLC

\* ---------------------------------------------------------------- bounds
MaxDocs == 2        \* documents of collection "orders": 0..MaxDocs
OtherDocs == 1      \* documents of collection "users"
MaxPageSize == 2    \* config["page_size"] ranges over 1..MaxPageSize
MaxReads == 2       \* read invocations per behaviour
TickStep == 500     \* wall-clock advance per Tick, in milliseconds
MaxClock == 1000    \* last wall-clock value, in milliseconds
MaxIndices == 2     \* indices reported by the engine to discover

\* ------------------------------------------------------ program constants
MsPerSec == 1000

VARIABLES clock, docCount, config, catalog, calls, gens, requests, delivered, scrolls, op

vars == <<clock, docCount, config, catalog, calls, gens, requests, delivered, scrolls, op>>

Min(a, b) == IF a <= b THEN a ELSE b

\* ------------------------------------------------------------ the engine
IndexNames == {"orders", "users"}

NoToken == [ctx |-> 0, seq |-> 0]

\* the documents of a collection, in the engine's match_all order
Docs(index) == [k \in 1..docCount[index] |-> [_source |-> [index |-> index, n |-> k]]]

\* es.search(index=..., body=match_all, size=..., scroll="1m"): opens a scroll
\* context and returns the first page with a cursor token
es_search(index, size) ==
    LET n == Min(size, docCount[index])
        c == Len(scrolls) + 1
    IN [page    |-> [_scroll_id |-> [ctx |-> c, seq |-> 1],
                     hits |-> SubSeq(Docs(index), 1, n)],
        scrolls |-> Append(scrolls, [index |-> index, size |-> size, pos |-> n, seq |-> 1])]

\* es.scroll(scroll_id=..., scroll="1m"): returns the next page of the context
\* the token belongs to, with a new cursor token
es_scroll(scroll_id) ==
    LET c == scroll_id.ctx
        s == scrolls[c]
        n == Min(s.pos + s.size, docCount[s.index])
    IN [page    |-> [_scroll_id |-> [ctx |-> c, seq |-> s.seq + 1],
                     hits |-> SubSeq(Docs(s.index), s.pos + 1, n)],
        scrolls |-> [scrolls EXCEPT ![c] = [s EXCEPT !.pos = n, !.seq = s.seq + 1]]]

\* ------------------------------------------------------------ the client
ReadConfigs ==
    {[host |-> "es", username |-> "u", password |-> "p", page_size |-> p] : p \in 1..MaxPageSize}

\* _get_es_client: reads config["host"], config["username"], config["password"]
_get_es_client(cfg) ==
    IF {"host", "username", "password"} \subseteq DOMAIN cfg
    THEN [raised |-> FALSE, exc |-> ""]
    ELSE [raised |-> TRUE, exc |-> "KeyError"]

\* ---------------------------------------------------------------- read
NoGen == [pc |-> "none", index_name |-> "", page_size |-> 0,
          scroll_id |-> NoToken, hits |-> <<>>, i |-> 0]

\* the prior-state argument of read: an empty dict or a saved checkpoint
StateArgs == {"empty", "checkpoint"}

NoCall == [state |-> "none", time |-> 0]

RECURSIVE SeqsOver(_, _)
\* sequences over S of length at most n
SeqsOver(S, n) ==
    IF n = 0 THEN {<<>>}
    ELSE LET shorter == SeqsOver(S, n - 1)
         IN shorter \cup {Append(q, x) : q \in {r \in shorter : Len(r) = n - 1},
                                         x \in S}

Distinct(q) == \A a, b \in 1..Len(q) : a # b => q[a] # q[b]

\* the configured catalogs: the streams requested, in the order configured
\* (none, one, two in either order)
Catalogs == {<<>>, <<"users">>, <<"orders", "users">>, <<"users", "orders">>}

\* the generator object _scroll_through_index returns: no line of its body has
\* run yet
_scroll_through_index(index_name, page_size) ==
    [pc |-> "created", index_name |-> index_name, page_size |-> page_size,
     scroll_id |-> NoToken, hits |-> <<>>, i |-> 0]

\* (mutant) the last configured stream is read instead of the first
read_lastStream(cfg, cat, state) ==
    IF cat = <<>>
    THEN [NoGen EXCEPT !.pc = "returned_none"]
    ELSE _scroll_through_index(cat[Len(cat)], cfg["page_size"])

\* (mutant) a saved checkpoint moves the read on to the last configured stream
read_fromState(cfg, cat, state) ==
    IF cat = <<>>
    THEN [NoGen EXCEPT !.pc = "returned_none"]
    ELSE _scroll_through_index(cat[IF state = "checkpoint" THEN Len(cat) ELSE 1],
                               cfg["page_size"])

\* read's value: the generator of the first configured stream, None when the
\* catalog has no stream
read(cfg, cat, state) ==
    IF cat = <<>>
    THEN [NoGen EXCEPT !.pc = "returned_none"]
    ELSE _scroll_through_index(cat[1], cfg["page_size"])

\* int(datetime.now().timestamp()) * 1000
EmittedAt(now) == (now \div MsPerSec) * MsPerSec

AirbyteMessage(index_name, hit, now) ==
    [type |-> "RECORD",
     record |-> [stream |-> index_name, data |-> hit._source, emitted_at |-> EmittedAt(now)]]

\* (mutant) the for loop starts at the second hit of a page
AfterFetch_skipFirst(gen, page) ==
    LET g1 == [gen EXCEPT !.scroll_id = page._scroll_id, !.hits = page.hits]
    IN IF page.hits = <<>>
       THEN [g1 EXCEPT !.pc = "done", !.i = 0]
       ELSE [g1 EXCEPT !.pc = "suspended", !.i = Min(2, Len(page.hits))]

\* (mutant) scroll_id is set from the search response and never updated
AfterFetch_keepFirstToken(gen, page) ==
    LET g1 == [gen EXCEPT !.scroll_id = IF gen.scroll_id = NoToken
                                         THEN page._scroll_id ELSE gen.scroll_id,
                          !.hits = page.hits]
    IN IF page.hits = <<>>
       THEN [g1 EXCEPT !.pc = "done", !.i = 0]
       ELSE [g1 EXCEPT !.pc = "suspended", !.i = 1]

\* the generator after a page arrived: locals updated from the response, then
\* the while test; on a non-empty page execution runs to the yield of hit 1
AfterFetch(gen, page) ==
    LET g1 == [gen EXCEPT !.scroll_id = page._scroll_id, !.hits = page.hits]
    IN IF page.hits = <<>>
       THEN [g1 EXCEPT !.pc = "done", !.i = 0]
       ELSE [g1 EXCEPT !.pc = "suspended", !.i = 1]

\* (mutant) a failed page fetch is swallowed and ends the read quietly
FetchFailed_swallowed(gen) == [gen EXCEPT !.pc = "done"]

\* a page fetch raised: nothing catches it, the generator is finished and the
\* exception reaches the caller of next()
FetchFailed(gen) == [gen EXCEPT !.pc = "raised"]

Request(o, index, size, scroll_id, ok, page) ==
    [op |-> o, index |-> index, size |-> size, scroll_id |-> scroll_id, ok |-> ok,
     resp_id |-> IF ok THEN page._scroll_id ELSE NoToken,
     nhits |-> IF ok THEN Len(page.hits) ELSE 0]

NextCall == Cardinality({g \in 1..MaxReads : calls[g] # NoCall}) + 1

\* (mutant) the search is issued when read is called, before any pull
Read_eager ==
    /\ NextCall <= MaxReads
    /\ ~_get_es_client(config).raised
    /\ catalog # <<>>
    /\ \E state \in StateArgs :
         LET gen == read(config, catalog, state)
             r == es_search(gen.index_name, gen.page_size)
         IN /\ calls' = [calls EXCEPT ![NextCall] = [state |-> state, time |-> clock]]
            /\ gens' = [gens EXCEPT ![NextCall] = [AfterFetch(gen, r.page) EXCEPT !.i = 0]]
            /\ requests' = [requests EXCEPT ![NextCall] =
                 <<Request("search", gen.index_name, gen.page_size, NoToken, TRUE, r.page)>>]
            /\ scrolls' = r.scrolls
    /\ UNCHANGED <<clock, docCount, config, catalog, delivered, op>>

Read ==
    /\ NextCall <= MaxReads
    /\ ~_get_es_client(config).raised
    /\ \E state \in StateArgs :
         /\ calls' = [calls EXCEPT ![NextCall] = [state |-> state, time |-> clock]]
         /\ gens' = [gens EXCEPT ![NextCall] = read(config, catalog, state)]
    /\ UNCHANGED <<clock, docCount, config, catalog, requests, delivered, scrolls, op>>

Deliver(g, gen) ==
    IF gen.pc = "suspended"
    THEN delivered' = [delivered EXCEPT ![g] =
                         Append(@, AirbyteMessage(gen.index_name, gen.hits[gen.i], clock))]
    ELSE UNCHANGED delivered

\* first next(): the body runs from its first line, issuing the search
PullSearch(g) ==
    /\ gens[g].pc = "created"
    /\ LET gen == gens[g]
           r == es_search(gen.index_name, gen.page_size)
       IN \E ok \in BOOLEAN :
            /\ requests' = [requests EXCEPT ![g] =
                 Append(@, Request("search", gen.index_name, gen.page_size, NoToken, ok, r.page))]
            /\ IF ok
               THEN /\ scrolls' = r.scrolls
                    /\ gens' = [gens EXCEPT ![g] = AfterFetch(gen, r.page)]
                    /\ Deliver(g, AfterFetch(gen, r.page))
               ELSE /\ gens' = [gens EXCEPT ![g] = FetchFailed(gen)]
                    /\ UNCHANGED <<scrolls, delivered>>
    /\ UNCHANGED <<clock, docCount, config, catalog, calls, op>>

\* next() while hits of the current page remain: the for loop yields the next
PullHit(g) ==
    /\ gens[g].pc = "suspended"
    /\ gens[g].i < Len(gens[g].hits)
    /\ gens' = [gens EXCEPT ![g].i = @ + 1]
    /\ Deliver(g, gens'[g])
    /\ UNCHANGED <<clock, docCount, config, catalog, calls, requests, scrolls, op>>

\* next() after the last hit of the page was yielded: scroll, then the while test
PullScroll(g) ==
    /\ gens[g].pc = "suspended"
    /\ gens[g].i = Len(gens[g].hits)
    /\ LET gen == gens[g]
           r == es_scroll(gen.scroll_id)
       IN \E ok \in BOOLEAN :
            /\ requests' = [requests EXCEPT ![g] =
                 Append(@, Request("scroll", "", 0, gen.scroll_id, ok, r.page))]
            /\ IF ok
               THEN /\ scrolls' = r.scrolls
                    /\ gens' = [gens EXCEPT ![g] = AfterFetch(gen, r.page)]
                    /\ Deliver(g, AfterFetch(gen, r.page))
               ELSE /\ gens' = [gens EXCEPT ![g] = FetchFailed(gen)]
                    /\ UNCHANGED <<scrolls, delivered>>
    /\ UNCHANGED <<clock, docCount, config, catalog, calls, op>>

Tick ==
    /\ clock + TickStep <= MaxClock
    /\ clock' = clock + TickStep
    /\ UNCHANGED <<docCount, config, catalog, calls, gens, requests, delivered, scrolls, op>>

NoOp == [name |-> "none"]

Init ==
    /\ clock = 0
    /\ docCount \in {d \in [IndexNames -> 0..MaxDocs + OtherDocs] :
                        d["orders"] <= MaxDocs /\ d["users"] = OtherDocs}
    /\ config \in ReadConfigs
    /\ catalog \in Catalogs
    /\ calls = [g \in 1..MaxReads |-> NoCall]
    /\ gens = [g \in 1..MaxReads |-> NoGen]
    /\ requests = [g \in 1..MaxReads |-> <<>>]
    /\ delivered = [g \in 1..MaxReads |-> <<>>]
    /\ scrolls = <<>>
    /\ op = NoOp

Next ==
    \/ Read
    \/ \E g \in 1..MaxReads : PullSearch(g)
    \/ \E g \in 1..MaxReads : PullHit(g)
    \/ \E g \in 1..MaxReads : PullScroll(g)
    \/ Tick

Spec == Init /\ [][Next]_vars

\* one next() of read g
Pull(g) == PullSearch(g) \/ PullHit(g) \/ PullScroll(g)

\* a consumer that consumes every read fully: it never stops pulling a read
\* that can still be pulled
LiveSpec == Spec /\ \A g \in 1..MaxReads : WF_vars(Pull(g))

\* ------------------------------------------------------- check, discover
system_indices == {".kibana_1", ".opendistro_security"}

es_to_json_type_mapping ==
    ("boolean" :> "boolean") @@
    ("text" :> "string") @@
    ("date" :> "string") @@
    ("date_nanos" :> "string") @@
    ("long" :> "integer") @@
    ("unsigned_long" :> "integer") @@
    ("integer" :> "integer") @@
    ("short" :> "integer") @@
    ("byte" :> "integer") @@
    ("double" :> "number") @@
    ("float" :> "number") @@
    ("half_float" :> "number") @@
    ("scaled_float" :> "number")

\* configurations handed to check: complete, or lacking a key the client needs
CheckConfigs ==
    ReadConfigs \cup {[username |-> "u", password |-> "p", page_size |-> 1]}

\* check: no statement of it catches an exception
check(cfg, ctor, ping) ==
    IF _get_es_client(cfg).raised
    THEN [kind |-> "raise", exc |-> _get_es_client(cfg).exc, status |-> "", message |-> ""]
    ELSE IF ctor = "raises"
    THEN [kind |-> "raise", exc |-> "ClientError", status |-> "", message |-> ""]
    ELSE IF ping = "raises"
    THEN [kind |-> "raise", exc |-> "TransportError", status |-> "", message |-> ""]
    ELSE IF ping = "false"
    THEN [kind |-> "return", exc |-> "", status |-> "FAILED", message |-> "Connection failed"]
    ELSE [kind |-> "return", exc |-> "", status |-> "SUCCEEDED", message |-> ""]

\* one command per run of the connector: check or discover acts on a fresh run
Check ==
    /\ op = NoOp
    /\ \E cfg \in CheckConfigs, ctor \in {"ok", "raises"}, ping \in {"true", "false", "raises"} :
         op' = [name |-> "check", config |-> cfg, ctor |-> ctor, ping |-> ping,
                result |-> check(cfg, ctor, ping)]
    /\ UNCHANGED <<clock, docCount, config, catalog, calls, gens, requests, delivered, scrolls>>

\* what the engine reports: index names in the order es.indices.get("*") lists
\* them, and per index the fields of its mapping in the order listed
AllIndexNames == IndexNames \cup system_indices

IndexLists == {q \in SeqsOver(AllIndexNames, MaxIndices) : Distinct(q)}

Nested == [type |-> "nested", has_properties |-> TRUE]

Plain(t) == [type |-> t, has_properties |-> FALSE]

\* the attributes a field of the given name may have
FieldAttrs(name) ==
    IF name = "id"
    THEN {Plain(t) : t \in DOMAIN es_to_json_type_mapping \cup {"keyword"}} \cup {Nested}
    ELSE {Plain("text"), Plain("geo_point"), Nested}

FieldNames == {"id", "meta"}

FieldLists ==
    UNION {{[k \in 1..Len(q) |-> [name |-> q[k], attrs |-> a[q[k]]]] :
              a \in [FieldNames -> UNION {FieldAttrs(n) : n \in FieldNames}]}
           : q \in {r \in SeqsOver(FieldNames, Cardinality(FieldNames)) : Distinct(r)}}

Mappings == {m \in FieldLists : \A k \in 1..Len(m) : m[k].attrs \in FieldAttrs(m[k].name)}

\* a system index is never asked for its mapping; it holds a keyword field
SystemMapping == <<[name |-> "id", attrs |-> Plain("keyword")]>>

\* (mutant) the system indices are not filtered out
_get_indices_all(indices) == indices

\* _get_indices: the dict comprehension keeps the engine's order
_get_indices(indices) == SelectSeq(indices, LAMBDA key : key \notin system_indices)

RECURSIVE PropertiesFrom(_, _, _)
\* the for loop of _get_index_json_properties from field k on, json_properties
\* so far being acc
PropertiesFrom(es_properties, k, acc) ==
    IF k > Len(es_properties)
    THEN [raised |-> FALSE, type |-> "", value |-> acc]
    ELSE LET property_name == es_properties[k].name
             property_attributes == es_properties[k].attrs
         IN IF property_attributes.has_properties
            THEN PropertiesFrom(es_properties, k + 1, acc)
            ELSE IF property_attributes.type \in DOMAIN es_to_json_type_mapping
            THEN PropertiesFrom(es_properties, k + 1,
                   (property_name :> [type |-> es_to_json_type_mapping[property_attributes.type]])
                     @@ acc)
            ELSE [raised |-> TRUE, type |-> property_attributes.type, value |-> <<>>]

RECURSIVE PropertiesSkipping(_, _, _)
PropertiesSkipping(es_properties, k, acc) ==
    IF k > Len(es_properties)
    THEN [raised |-> FALSE, type |-> "", value |-> acc]
    ELSE LET property_name == es_properties[k].name
             property_attributes == es_properties[k].attrs
         IN IF property_attributes.has_properties
               \/ property_attributes.type \notin DOMAIN es_to_json_type_mapping
            THEN PropertiesSkipping(es_properties, k + 1, acc)
            ELSE PropertiesSkipping(es_properties, k + 1,
                   (property_name :> [type |-> es_to_json_type_mapping[property_attributes.type]])
                     @@ acc)

\* (mutant) a field of unsupported type is skipped like a nested one
_get_index_json_properties_skip(es_properties) == PropertiesSkipping(es_properties, 1, <<>>)

_get_index_json_properties(es_properties) == PropertiesFrom(es_properties, 1, <<>>)

AirbyteStream(index_name, properties) ==
    [name |-> index_name,
     json_schema |-> [schema |-> "http://json-schema.org/draft-07/schema#",
                      type |-> "object", properties |-> properties],
     supported_sync_modes |-> <<"full_refresh">>]

RECURSIVE StreamsFrom(_, _, _, _)
\* the for loop of discover from index k on, streams so far being acc
StreamsFrom(names, mappings, k, acc) ==
    IF k > Len(names)
    THEN [kind |-> "return", exc |-> "", type |-> "", streams |-> acc]
    ELSE LET p == _get_index_json_properties(mappings[names[k]])
         IN IF p.raised
            THEN [kind |-> "raise", exc |-> "UnsupportedDataTypeException",
                  type |-> p.type, streams |-> <<>>]
            ELSE StreamsFrom(names, mappings, k + 1,
                             Append(acc, AirbyteStream(names[k], p.value)))

discover(indices, mappings) == StreamsFrom(_get_indices(indices), mappings, 1, <<>>)

Discover ==
    /\ op = NoOp
    /\ \E indices \in IndexLists :
         \E mappings \in [{indices[k] : k \in 1..Len(indices)} -> Mappings] :
           /\ \A n \in DOMAIN mappings : n \in system_indices => mappings[n] = SystemMapping
           /\ op' = [name |-> "discover", indices |-> indices, mappings |-> mappings,
                     result |-> discover(indices, mappings)]
    /\ UNCHANGED <<clock, docCount, config, catalog, calls, gens, requests, delivered, scrolls>>

InitMeta ==
    /\ clock = 0
    /\ docCount = [n \in IndexNames |-> 0]
    /\ config \in ReadConfigs
    /\ catalog = <<>>
    /\ calls = [g \in 1..MaxReads |-> NoCall]
    /\ gens = [g \in 1..MaxReads |-> NoGen]
    /\ requests = [g \in 1..MaxReads |-> <<>>]
    /\ delivered = [g \in 1..MaxReads |-> <<>>]
    /\ scrolls = <<>>
    /\ op = NoOp

NextMeta ==
    \/ Check
    \/ Discover

MetaSpec == InitMeta /\ [][NextMeta]_vars
\* ------------------------------------------------------------ properties
Gens == 1..MaxReads

\* the document bodies read g has delivered, in order
Data(g) == [k \in 1..Len(delivered[g]) |-> delivered[g][k].record.data]

\* the document bodies of a collection, in the engine's order
Bodies(index) == [k \in 1..docCount[index] |-> [index |-> index, n |-> k]]

IsPrefix(a, b) == Len(a) <= Len(b) /\ SubSeq(b, 1, Len(a)) = a

CeilDiv(n, p) == (n + p - 1) \div p

\* C1: a read consumed to its end against an engine that did not fail has
\* delivered exactly the documents of the collection it queried, each once and
\* in order, every record tagged with that collection's name.
C1_ExactlyOncePerDocument ==
    \A g \in Gens :
        gens[g].pc = "done" =>
            LET queried == requests[g][1].index
            IN /\ Len(delivered[g]) = docCount[queried]
               /\ Data(g) = Bodies(queried)
               /\ \A k \in 1..Len(delivered[g]) :
                    /\ delivered[g][k].type = "RECORD"
                    /\ delivered[g][k].record.stream = queried

C1_Witness ==
    \E g \in Gens :
        /\ gens[g].pc = "done"
        /\ Len(delivered[g]) = 2
        /\ Len(requests[g]) = 3

\* C2: check never raises: it returns FAILED with a non-empty message on every
\* failure and SUCCEEDED only when the ping succeeded.
C2_CheckNeverRaises ==
    op.name = "check" =>
        /\ op.result.kind = "return"
        /\ op.result.status \in {"SUCCEEDED", "FAILED"}
        /\ op.result.status = "SUCCEEDED" =>
             (~_get_es_client(op.config).raised /\ op.ctor = "ok" /\ op.ping = "true")
        /\ op.result.status = "FAILED" => op.result.message # ""

\* the types declared by non-nested fields of non-system indices that the type
\* table lacks
OffendingTypes(indices, mappings) ==
    {mappings[indices[i]][k].attrs.type :
        <<i, k>> \in {ik \in (1..Len(indices)) \X (1..Cardinality(FieldNames)) :
                        /\ indices[ik[1]] \notin system_indices
                        /\ ik[2] <= Len(mappings[indices[ik[1]]])
                        /\ ~mappings[indices[ik[1]]][ik[2]].attrs.has_properties
                        /\ mappings[indices[ik[1]]][ik[2]].attrs.type
                             \notin DOMAIN es_to_json_type_mapping}}

JsonTypes == {"boolean", "string", "integer", "number"}

\* the fields of a mapping that have no nested sub-mapping
FlatFields(m) == {k \in 1..Len(m) : ~m[k].attrs.has_properties}

C5_EmittedAtNotBeforeCall ==
    \A g \in Gens : \A k \in 1..Len(delivered[g]) :
        /\ delivered[g][k].record.emitted_at >= calls[g].time
        /\ k > 1 => delivered[g][k].record.emitted_at >= delivered[g][k - 1].record.emitted_at

\* C6: only the first requested collection is streamed: every record carries its
\* name and every search and scroll context is on it.
C6_OnlyFirstStreamRead ==
    catalog # <<>> =>
        /\ \A g \in Gens :
             /\ \A k \in 1..Len(delivered[g]) : delivered[g][k].record.stream = catalog[1]
             /\ \A k \in 1..Len(requests[g]) :
                  /\ requests[g][k].op = "search" => requests[g][k].index = catalog[1]
                  /\ requests[g][k].op = "scroll" =>
                       scrolls[requests[g][k].scroll_id.ctx].index = catalog[1]
        /\ \A c \in 1..Len(scrolls) : scrolls[c].index = catalog[1]

C6_Witness ==
    /\ Len(catalog) = 2
    /\ docCount[catalog[2]] > 0
    /\ \E g \in Gens : gens[g].pc = "done" /\ Len(delivered[g]) > 0

\* what a request asks for, the cursor token left out
Asked(g) ==
    [k \in 1..Len(requests[g]) |->
        [op |-> requests[g][k].op, index |-> requests[g][k].index, size |-> requests[g][k].size]]

\* C7: any two reads of a run (same configuration, same requested collections,
\* any prior-state arguments, any interleaving) ask the same requests and
\* deliver the same documents in the same order: one is a prefix of the other
\* while they run, and they are equal once both are consumed.
C7_ReadsAgreeWhateverTheState ==
    \A g1, g2 \in Gens :
        /\ IsPrefix(Data(g1), Data(g2)) \/ IsPrefix(Data(g2), Data(g1))
        /\ IsPrefix(Asked(g1), Asked(g2)) \/ IsPrefix(Asked(g2), Asked(g1))
        /\ (gens[g1].pc = "done" /\ gens[g2].pc = "done") =>
              /\ Data(g1) = Data(g2)
              /\ Asked(g1) = Asked(g2)
              /\ [k \in 1..Len(delivered[g1]) |-> delivered[g1][k].record.stream]
                   = [k \in 1..Len(delivered[g2]) |-> delivered[g2][k].record.stream]

\* two consumed reads given different prior states, each over several pages
C7_Witness ==
    /\ gens[1].pc = "done"
    /\ gens[2].pc = "done"
    /\ calls[1].state # calls[2].state
    /\ Len(delivered[1]) = 2
    /\ scrolls[1].seq > 1
    /\ scrolls[2].seq > 1

\* C8 as claimed: a read ended by a failed page fetch has delivered all records
\* of the collection or none.
C8_AllOrNothing ==
    \A g \in Gens :
        gens[g].pc = "raised" =>
            \/ delivered[g] = <<>>
            \/ Len(delivered[g]) = docCount[gens[g].index_name]

\* the number of hits the successful fetches of read g returned
RECURSIVE FetchedUpTo(_, _)
FetchedUpTo(g, k) == IF k = 0 THEN 0 ELSE FetchedUpTo(g, k - 1) + requests[g][k].nhits

Fetched(g) == FetchedUpTo(g, Len(requests[g]))

\* C8 amended: a failed page fetch ends the read with the error raised to the
\* consumer; what was delivered is the documents of the pages fetched before,
\* a prefix of the collection; a raised read delivers and requests nothing more.
C8_Inv ==
    \A g \in Gens :
        /\ gens[g].pc = "raised" <=>
             (requests[g] # <<>> /\ ~requests[g][Len(requests[g])].ok)
        /\ gens[g].pc = "raised" =>
             /\ Len(delivered[g]) = Fetched(g)
             /\ IsPrefix(Data(g), Bodies(gens[g].index_name))

C8_Step ==
    \A g \in Gens :
        gens[g].pc = "raised" =>
            /\ gens'[g] = gens[g]
            /\ delivered'[g] = delivered[g]
            /\ requests'[g] = requests[g]

C8_FailureEndsReadWithPrefix == []C8_Inv /\ [][C8_Step]_vars

\* a strict non-empty subset was delivered when the scroll failed
C8_Witness ==
    \E g \in Gens :
        /\ gens[g].pc = "raised"
        /\ Len(delivered[g]) = 1
        /\ docCount[gens[g].index_name] = 2

\* C9: a read issues one search, then one scroll after each non-empty page,
\* each scroll carrying the token of the response before it, and nothing after
\* an empty page; consumed to its end it has issued ceil(N/P) scrolls, the last
\* one answered by the empty page, and it can be pulled no further; a read that
\* the consumer keeps pulling comes to its end.
C9_Inv ==
    \A g \in Gens :
        LET rq == requests[g]
            n == docCount[gens[g].index_name]
        IN /\ \A k \in 1..Len(rq) :
                /\ k = 1 => (rq[k].op = "search" /\ rq[k].size = gens[g].page_size)
                /\ k > 1 => /\ rq[k].op = "scroll"
                            /\ rq[k].scroll_id = rq[k - 1].resp_id
                            /\ rq[k - 1].ok
                            /\ rq[k - 1].nhits > 0
           /\ gens[g].pc = "done" =>
                /\ Len(rq) = 1 + CeilDiv(n, gens[g].page_size)
                /\ rq[Len(rq)].ok
                /\ rq[Len(rq)].nhits = 0
                /\ ~ENABLED PullSearch(g)
                /\ ~ENABLED PullHit(g)
                /\ ~ENABLED PullScroll(g)

C9_Terminates ==
    \A g \in Gens : (gens[g].pc = "created") ~> (gens[g].pc \in {"done", "raised"})

C9_OneSearchThenScrollPerPage == []C9_Inv /\ C9_Terminates

\* two documents in pages of one: a search and two scrolls
C9_Witness ==
    \E g \in Gens :
        /\ gens[g].pc = "done"
        /\ gens[g].page_size = 1
        /\ Len(requests[g]) = 3
        /\ requests[g][3].scroll_id.seq = 2

\* hits fetched by read g and not yet delivered
Buffered(g) == Fetched(g) - Len(delivered[g])

C10_Inv ==
    \A g \in Gens :
        /\ gens[g].pc \in {"none", "returned_none", "created"} => requests[g] = <<>>
        /\ Buffered(g) >= 0
        /\ Buffered(g) <= config["page_size"]

\* a request is issued only in a pull of a read that has nothing buffered: the
\* pull ends with a record delivered or with the read finished
C10_Step ==
    \A g \in Gens :
        requests'[g] # requests[g] =>
            /\ Len(requests'[g]) = Len(requests[g]) + 1
            /\ Buffered(g) = 0
            /\ gens[g].pc \in {"created", "suspended"}
            /\ \/ Len(delivered'[g]) = Len(delivered[g]) + 1
               \/ gens'[g].pc \in {"done", "raised"}

\* C10: emission is lazy and consumer-paced: no request before the first pull,
\* a request only when a pull finds no hit of the current page left, at most
\* one page fetched and not yet delivered.
C10_LazyConsumerPaced == []C10_Inv /\ [][C10_Step]_vars

\* a read left with a fetched hit the consumer has not pulled
C10_Witness ==
    \E g \in Gens :
        /\ gens[g].pc = "suspended"
        /\ Buffered(g) = 1
        /\ Len(delivered[g]) = 1
====
